---- MODULE Spec2Model ----
(***************************************************************************)
(* Model of src/scene.rs: the GodotScene spawn request, its constructors,  *)
(* and the spawn_scene system that PackedScenePlugin schedules in          *)
(* CoreSet::PostUpdate.  One frame is                                      *)
(*   Update (callers spawn requests, assets load, the scene changes)       *)
(*   -> spawn_scene (one pass over the unmarked requests)                  *)
(*   -> systems that run after it in the same stage                        *)
(*   -> PostUpdateFlush (the queued commands are applied).                 *)
(* A panic inside spawn_scene ends the pass where it stands: the scene     *)
(* tree keeps what was already attached, the command queue is never        *)
(* applied.                                                                *)
(***************************************************************************)
EXTENDS Integers, Sequences, FiniteSets, TLC

\* ------------------------------------------------------------------ bounds
MaxEntities == 2      \* entities that may carry a GodotScene

\* ------------------------------------------------- engine-side collaborators
\* Resources the engine or the asset store can hand out.
Resources == {"scene3d", "scene2d", "texture", "empty_scene"}
Null == "null"

\* ResourceLoader::load(path, "PackedScene", CACHE_MODE_REUSE): the resource the
\* path names, or null when nothing loads from it.
Paths == {"res://prop.tscn", "res://missing.tscn"}
LoaderLoad(path) ==
    IF path = "res://prop.tscn" THEN "scene3d" ELSE Null

\* Asset handles and the resource each one holds once the asset server loaded it.
Handles == {"h_prop"}
HandleTarget(h) == "scene3d"

\* Gd<Resource>::try_cast::<PackedScene>()
IsPackedScene(res) == res \in {"scene3d", "scene2d", "empty_scene"}

\* Transform values: a basis (identity "I" or some rotation "R") and an origin.
Transform3DDefault == [basis |-> "I", origin |-> <<0, 0, 0>>]
Transform2DIdentity == [basis |-> "I", origin |-> <<0, 0>>]

VecAdd(a, b) == [i \in DOMAIN a |-> a[i] + b[i]]

\* Transform3D::translated / Transform2D::translated: same basis, origin moved.
Translated(t, v) == [t EXCEPT !.origin = VecAdd(t.origin, v)]

\* The node tree a PackedScene instantiates to: class of the root, number of
\* children below it, and the root's transform as saved in the scene.
\* An empty PackedScene instantiates to nothing.
HasTemplate(res) == res \in {"scene3d", "scene2d"}
Template(res) ==
    IF res = "scene3d"
    THEN [class |-> "MeshInstance3D", child_count |-> 1,
          xform |-> [basis |-> "I", origin |-> <<5, 5, 5>>]]
    ELSE [class |-> "Sprite2D", child_count |-> 2,
          xform |-> [basis |-> "I", origin |-> <<7, 7>>]]

\* Class hierarchy used by try_cast::<Node2D>() / try_cast::<Node3D>().
Inherits(class, base) ==
    \/ class = base
    \/ class = "MeshInstance3D" /\ base = "Node3D"
    \/ class = "Sprite2D" /\ base = "Node2D"

\* Scene roots the tree can have as current scene; NoRoot stands for "no current scene".
Roots == {"main"}
NoRoot == "none"

VARIABLES
    scene,          \* Seq of GodotScene: scene[e] is the request on entity e
    built,          \* Seq: how the caller built scene[e] (constructor inputs)
    spawned,        \* set of entities that carry GodotSceneSpawned
    erased,         \* erased[e]: node the entity's ErasedGd refers to, 0 if none
    commands,       \* Commands queued by spawn_scene, applied at the flush
    assets,         \* Assets<ErasedGdResource>: the handles whose asset is loaded
    asset_events,   \* handles for which the store emitted a Modified event
    current_scene,  \* SceneTree::get_current_scene(): a root, or NoRoot
    nodes,          \* Seq of live nodes; a node's id is its index
    children,       \* children[root]: Seq of node ids added below the root
    steps,          \* steps[e]: what spawn_scene did for entity e, in order
    pc              \* position in the frame

vars == <<scene, built, spawned, erased, commands, assets, asset_events,
          current_scene, nodes, children, steps, pc>>

Entities == 1..MaxEntities

\* ------------------------------------------------------- GodotScene builders
\* Option<GodotSceneTransform>
None == [tag |-> "None"]
SomeTransform2D(t) == [tag |-> "Transform2D", value |-> t]
SomeTransform3D(t) == [tag |-> "Transform3D", value |-> t]

from_path(path) ==
    [resource |-> [variant |-> "Path", path |-> path], transform |-> None]

from_handle(handle) ==
    [resource |-> [variant |-> "Handle", handle |-> handle], transform |-> None]

from_resource(res) ==
    [resource |-> [variant |-> "Resource", res |-> res], transform |-> None]

with_transform3d(self, transform) ==
    [self EXCEPT !.transform = SomeTransform3D(transform)]

with_transform2d(self, transform) ==
    [self EXCEPT !.transform = SomeTransform2D(transform)]

with_translation3d(self, translation) ==
    [self EXCEPT !.transform =
        SomeTransform3D(Translated(Transform3DDefault, translation))]

with_translation2d(self, translation) ==
    [self EXCEPT !.transform =
        SomeTransform2D(Translated(Transform2DIdentity, translation))]

\* Inputs callers pass to the builders.
Vec3s == {<<1, 2, 3>>}
Vec2s == {<<4, 6>>}
Transforms3D == {[basis |-> "R", origin |-> <<2, 0, 1>>]}
Transforms2D == {[basis |-> "R", origin |-> <<3, 1>>]}

Bases ==
    {[ctor |-> "from_path", arg |-> p] : p \in Paths}
    \cup {[ctor |-> "from_handle", arg |-> h] : h \in Handles}
    \cup {[ctor |-> "from_resource", arg |-> r] : r \in Resources}

Modifiers ==
    {[with |-> "nothing"]}
    \cup {[with |-> "transform3d", transform |-> t] : t \in Transforms3D}
    \cup {[with |-> "transform2d", transform |-> t] : t \in Transforms2D}
    \cup {[with |-> "translation3d", translation |-> v] : v \in Vec3s}
    \cup {[with |-> "translation2d", translation |-> v] : v \in Vec2s}

\* The builder calls callers make: every base bare; the path-loaded 3D scene
\* and the inline 2D scene with every descriptor (fitting and not fitting);
\* the handle and the inline 3D scene also with a 3D translation.
Inputs ==
    {i \in Bases \X Modifiers :
        \/ i[2].with = "nothing"
        \/ i[1].arg \in {"res://prop.tscn", "scene2d"}
        \/ i[1].arg \in {"h_prop", "scene3d"} /\ i[2].with = "translation3d"}

BuildBase(b) ==
    CASE b.ctor = "from_path" -> from_path(b.arg)
      [] b.ctor = "from_handle" -> from_handle(b.arg)
      [] b.ctor = "from_resource" -> from_resource(b.arg)

Build(b, m) ==
    CASE m.with = "nothing" -> BuildBase(b)
      [] m.with = "transform3d" -> with_transform3d(BuildBase(b), m.transform)
      [] m.with = "transform2d" -> with_transform2d(BuildBase(b), m.transform)
      [] m.with = "translation3d" -> with_translation3d(BuildBase(b), m.translation)
      [] m.with = "translation2d" -> with_translation2d(BuildBase(b), m.translation)

\* ------------------------------------------------------------ initial state
Init ==
    /\ scene = <<>>
    /\ built = <<>>
    /\ spawned = {}
    /\ erased = [e \in Entities |-> 0]
    /\ commands = <<>>
    /\ assets \in SUBSET Handles
    /\ asset_events = {}
    /\ current_scene \in Roots \cup {NoRoot}
    /\ nodes = <<>>
    /\ children = [r \in Roots |-> <<>>]
    /\ steps = [e \in Entities |-> <<>>]
    /\ pc = "update"

\* ------------------------------------------------------------- spawn_scene
\* The query without its Without<GodotSceneSpawned> filter.
NewScenesUnfiltered == 1..Len(scene)

\* The query yields one unmarked entity per pass only.
NewScenesFirstOnly ==
    {e \in 1..Len(scene) :
        e \notin spawned /\ \A f \in 1..Len(scene) : f \notin spawned => e <= f}

\* Query<(&mut GodotScene, Entity), Without<GodotSceneSpawned>>
NewScenes == {e \in 1..Len(scene) : e \notin spawned}

\* The Handle arm hands out another resource than the one the handle holds.
ResolveResourceWrongAsset(resource, store) ==
    CASE resource.variant = "Handle" ->
            IF resource.handle \in store THEN "scene2d" ELSE Null
      [] resource.variant = "Path" -> LoaderLoad(resource.path)
      [] resource.variant = "Resource" -> resource.res

\* The match on scene.resource: the Gd<Resource> each variant yields, Null when
\* the asset is not in the store or the path does not load.
ResolveResource(resource, store) ==
    CASE resource.variant = "Handle" ->
            IF resource.handle \in store THEN HandleTarget(resource.handle) ELSE Null
      [] resource.variant = "Path" -> LoaderLoad(resource.path)
      [] resource.variant = "Resource" -> resource.res

\* Assets::get_mut reports the asset as modified to the store's event queue.
TouchedAssets(resource) ==
    IF resource.variant = "Handle" THEN {resource.handle} ELSE {}

\* PackedScene::instantiate(GEN_EDIT_STATE_DISABLED): a fresh root without parent.
Instantiate(res, ent) ==
    [class |-> Template(res).class, child_count |-> Template(res).child_count,
     xform |-> Template(res).xform, parent |-> NoRoot, owner |-> ent, res |-> res]

\* The instance is never handed to the scene root.
AddChildForgotten(st, root, id) == st

\* add_child(instance.share(), false, INTERNAL_MODE_DISABLED) on the current scene.
AddChild(st, root, id) ==
    [st EXCEPT !.children[root] = Append(@, id), !.nodes[id].parent = root]

\* The transform is written without looking at the node's class.
ApplyTransformUnchecked(node, transform) ==
    IF transform.tag = "None" THEN [node |-> node, did |-> <<>>]
    ELSE [node |-> [node EXCEPT !.xform = transform.value],
          did |-> <<"set_global_transform">>]

\* Only the position is written (set_global_position), the basis is kept.
ApplyTransformOriginOnly(node, transform) ==
    CASE transform.tag = "None" -> [node |-> node, did |-> <<>>]
      [] transform.tag = "Transform2D" ->
            IF Inherits(node.class, "Node2D")
            THEN [node |-> [node EXCEPT !.xform.origin = transform.value.origin],
                  did |-> <<"set_global_transform">>]
            ELSE [node |-> node, did |-> <<"error">>]
      [] transform.tag = "Transform3D" ->
            IF Inherits(node.class, "Node3D")
            THEN [node |-> [node EXCEPT !.xform.origin = transform.value.origin],
                  did |-> <<"set_global_transform">>]
            ELSE [node |-> node, did |-> <<"error">>]

\* A missing descriptor is replaced by the default transform (unwrap_or_default).
ApplyTransformDefaulting(node, transform) ==
    CASE transform.tag = "None" ->
            IF Inherits(node.class, "Node3D")
            THEN [node |-> [node EXCEPT !.xform = Transform3DDefault],
                  did |-> <<"set_global_transform">>]
            ELSE [node |-> node, did |-> <<"error">>]
      [] transform.tag = "Transform2D" ->
            IF Inherits(node.class, "Node2D")
            THEN [node |-> [node EXCEPT !.xform = transform.value],
                  did |-> <<"set_global_transform">>]
            ELSE [node |-> node, did |-> <<"error">>]
      [] transform.tag = "Transform3D" ->
            IF Inherits(node.class, "Node3D")
            THEN [node |-> [node EXCEPT !.xform = transform.value],
                  did |-> <<"set_global_transform">>]
            ELSE [node |-> node, did |-> <<"error">>]

\* The transform block: cast and set_global_transform, or tracing::error!.
\* Yields the node afterwards and the step that was taken.
ApplyTransform(node, transform) ==
    CASE transform.tag = "None" -> [node |-> node, did |-> <<>>]
      [] transform.tag = "Transform2D" ->
            IF Inherits(node.class, "Node2D")
            THEN [node |-> [node EXCEPT !.xform = transform.value],
                  did |-> <<"set_global_transform">>]
            ELSE [node |-> node, did |-> <<"error">>]
      [] transform.tag = "Transform3D" ->
            IF Inherits(node.class, "Node3D")
            THEN [node |-> [node EXCEPT !.xform = transform.value],
                  did |-> <<"set_global_transform">>]
            ELSE [node |-> node, did |-> <<"error">>]

\* The components are written to the entity at once instead of being queued.
InsertNow(st, ent, id) ==
    [st EXCEPT !.spawned = @ \cup {ent}, !.erased[ent] = id]

\* The handle of the first node of the tree is inserted instead of the instance.
QueueInsertFirstNode(st, ent, id) ==
    [st EXCEPT !.commands = @ \o
        <<[entity |-> ent, component |-> "ErasedGd", node |-> 1],
          [entity |-> ent, component |-> "GodotSceneSpawned", node |-> 0]>>]

\* Only the node handle is inserted, the marker is left out.
QueueInsertHandleOnly(st, ent, id) ==
    [st EXCEPT !.commands = @ \o
        <<[entity |-> ent, component |-> "ErasedGd", node |-> id]>>]

\* Only the marker is queued; the handle is dropped.
QueueInsertMarkerOnly(st, ent, id) ==
    [st EXCEPT !.commands = @ \o
        <<[entity |-> ent, component |-> "GodotSceneSpawned", node |-> 0]>>]

\* commands.entity(ent).insert(ErasedGd::new(instance)).insert(GodotSceneSpawned):
\* two inserts are queued in Commands; the world is not touched.
QueueInsert(st, ent, id) ==
    [st EXCEPT !.commands = @ \o
        <<[entity |-> ent, component |-> "ErasedGd", node |-> id],
          [entity |-> ent, component |-> "GodotSceneSpawned", node |-> 0]>>]

\* The missing value is skipped over and the loop goes on with the next entity.
PanicSkipped(st, ent) == [st EXCEPT !.steps[ent] = Append(@, "panic")]

\* expect()/unwrap() on a missing value: the pass stops here, nothing is undone.
Panic(st, ent) ==
    [st EXCEPT !.panicked = TRUE, !.steps[ent] = Append(@, "panic")]

Did(st, ent, what) == [st EXCEPT !.steps[ent] = @ \o what]

\* The match arm also stores the resolved value in the request, for every variant.
MatchResourceMemoized(st, ent) ==
    LET res == ResolveResource(st.scene[ent].resource, assets)
        s1 == [Did(st, ent, <<"resolve">>) EXCEPT
                  !.asset_events = @ \cup TouchedAssets(st.scene[ent].resource)]
    IN  IF res = Null THEN s1
        ELSE [s1 EXCEPT !.scene[ent].resource = [variant |-> "Resource", res |-> res]]

\* Evaluating the match on &mut scene.resource: the lookup is made (and, for a
\* handle, reported by the store); the request itself is only read.
MatchResource(st, ent) ==
    [Did(st, ent, <<"resolve">>) EXCEPT
        !.asset_events = @ \cup TouchedAssets(st.scene[ent].resource)]

\* The loop body with the transform block moved before add_child.
ProcessOneTransformFirst(st, ent, root) ==
    LET req == st.scene[ent]
        res == ResolveResource(req.resource, assets)
        s1 == MatchResource(st, ent)
    IN  IF res = Null \/ ~IsPackedScene(res) \/ ~HasTemplate(res)
        THEN Panic(s1, ent)
        ELSE
        LET id == Len(st.nodes) + 1
            s2 == [Did(s1, ent, <<"instantiate">>) EXCEPT
                      !.nodes = Append(@, Instantiate(res, ent))]
            tr == ApplyTransform(s2.nodes[id], req.transform)
            s3 == [Did(s2, ent, tr.did) EXCEPT !.nodes[id] = tr.node]
        IN  IF root = NoRoot THEN Panic(s3, ent)
            ELSE Did(QueueInsert(Did(AddChild(s3, root, id), ent, <<"add_child">>),
                                 ent, id), ent, <<"insert">>)

\* One iteration of the for loop, for entity ent.
ProcessOne(st, ent, root) ==
    LET req == st.scene[ent]
        res == ResolveResource(req.resource, assets)
        s1 == MatchResource(st, ent)
    IN  IF res = Null THEN Panic(s1, ent)
        ELSE IF ~IsPackedScene(res) THEN Panic(s1, ent)
        ELSE IF ~HasTemplate(res) THEN Panic(s1, ent)
        ELSE
        LET id == Len(st.nodes) + 1
            s2 == [Did(s1, ent, <<"instantiate">>) EXCEPT
                      !.nodes = Append(@, Instantiate(res, ent))]
        IN  IF root = NoRoot THEN Panic(s2, ent)
            ELSE
            LET s3 == Did(AddChild(s2, root, id), ent, <<"add_child">>)
                tr == ApplyTransform(s3.nodes[id], req.transform)
                s4 == [Did(s3, ent, tr.did) EXCEPT !.nodes[id] = tr.node]
            IN  Did(QueueInsert(s4, ent, id), ent, <<"insert">>)

\* The for loop over the query, in the order the query yields the entities.
RECURSIVE RunPass(_, _, _)
RunPass(st, order, root) ==
    IF order = <<>> \/ st.panicked THEN st
    ELSE RunPass(ProcessOne(st, Head(order), root), Tail(order), root)

\* Orders in which the query may yield a set of entities.
RECURSIVE Orders(_)
Orders(S) ==
    IF S = {} THEN {<<>>}
    ELSE UNION {{<<e>> \o o : o \in Orders(S \ {e})} : e \in S}

PassStart ==
    [scene |-> scene, nodes |-> nodes, children |-> children, commands |-> commands,
     spawned |-> spawned, erased |-> erased,
     steps |-> steps, asset_events |-> asset_events, panicked |-> FALSE]

\* spawn_scene, run by the schedule in CoreSet::PostUpdate.
SpawnScene ==
    /\ pc = "update"
    /\ \E order \in Orders(NewScenes) :
        LET st == RunPass(PassStart, order, current_scene)
        IN  /\ scene' = st.scene
            /\ nodes' = st.nodes
            /\ children' = st.children
            /\ commands' = st.commands
            /\ spawned' = st.spawned
            /\ erased' = st.erased
            /\ steps' = st.steps
            /\ asset_events' = st.asset_events
            /\ pc' = IF st.panicked THEN "panicked" ELSE "post_update"
    /\ UNCHANGED <<built, assets, current_scene>>

\* ------------------------------------------------------ the rest of the frame
\* A caller spawns an entity with a GodotScene built from the given inputs.
SpawnRequest(b, m) ==
    /\ pc = "update"
    /\ Len(scene) < MaxEntities
    /\ scene' = Append(scene, Build(b, m))
    /\ built' = Append(built, [base |-> b, modifier |-> m])
    /\ UNCHANGED <<spawned, erased, commands, assets, asset_events,
                   current_scene, nodes, children, steps, pc>>

\* The asset server finishes loading the asset behind a handle.
LoadAsset(h) ==
    /\ pc = "update"
    /\ h \notin assets
    /\ assets' = assets \cup {h}
    /\ UNCHANGED <<scene, built, spawned, erased, commands, asset_events,
                   current_scene, nodes, children, steps, pc>>

\* The engine switches the current scene (or has none).
ChangeScene(r) ==
    /\ pc = "update"
    /\ r # current_scene
    /\ current_scene' = r
    /\ UNCHANGED <<scene, built, spawned, erased, commands, assets, asset_events,
                   nodes, children, steps, pc>>

\* What Query<Entity, (With<GodotSceneSpawned>, With<ErasedGd>)> yields.
Visible == {e \in Entities : e \in spawned /\ erased[e] # 0}

\* The systems that run after spawn_scene in the same frame, before the flush:
\* they read the world as it is now and leave this subsystem's state alone.
LaterSystem ==
    /\ pc = "post_update"
    /\ pc' = "flush"
    /\ UNCHANGED <<scene, built, spawned, erased, commands, assets, asset_events,
                   current_scene, nodes, children, steps>>

\* Applying the queued commands to the world.
RECURSIVE ApplyCommands(_, _)
ApplyCommands(world, cmds) ==
    IF cmds = <<>> THEN world
    ELSE LET c == Head(cmds)
             w == IF c.component = "ErasedGd"
                  THEN [world EXCEPT !.erased[c.entity] = c.node]
                  ELSE [world EXCEPT !.spawned = @ \cup {c.entity}]
         IN  ApplyCommands(w, Tail(cmds))

\* CoreSet::PostUpdateFlush: apply_system_buffers.
Flush ==
    /\ pc = "flush"
    /\ LET w == ApplyCommands([spawned |-> spawned, erased |-> erased], commands)
       IN  /\ spawned' = w.spawned
           /\ erased' = w.erased
    /\ commands' = <<>>
    /\ pc' = "update"
    /\ UNCHANGED <<scene, built, assets, asset_events, current_scene, nodes,
                   children, steps>>

Next ==
    \/ \E i \in Inputs : SpawnRequest(i[1], i[2])
    \/ \E h \in Handles : LoadAsset(h)
    \/ \E r \in Roots \cup {NoRoot} : ChangeScene(r)
    \/ SpawnScene
    \/ LaterSystem
    \/ Flush

Spec == Init /\ [][Next]_vars

\* The frame loop keeps running: the schedule runs spawn_scene, the later
\* systems and the flush in every frame for as long as the app is alive.
\* The only step of Next that takes pc from "update" to "post_update" or
\* "panicked" is SpawnScene, which is enabled exactly when pc = "update", so
\* the first conjunct is weak fairness of SpawnScene written on pc alone.
FairSpec ==
    /\ Spec
    /\ WF_pc(pc = "update" /\ pc' \in {"post_update", "panicked"})
    /\ WF_vars(LaterSystem)
    /\ WF_vars(Flush)

\* ------------------------------------------------------------ vocabulary
Range(s) == {s[i] : i \in DOMAIN s}
Count(s, x) == Cardinality({i \in DOMAIN s : s[i] = x})
Requests == 1..Len(scene)

\* Nodes instantiated for entity e, and how many times one of them occurs in
\* the child list of a scene root.
NodesOf(e) == {n \in 1..Len(nodes) : nodes[n].owner = e}
Slots == UNION {{<<r, i>> : i \in DOMAIN children[r]} : r \in Roots}
AttachCount(e) ==
    Cardinality({p \in Slots : nodes[children[p[1]][p[2]]].owner = e})

\* Inserts waiting in Commands for entity e.
Queued(e, component) ==
    \E i \in DOMAIN commands :
        commands[i].entity = e /\ commands[i].component = component
QueuedEntities == {commands[i].entity : i \in DOMAIN commands}

\* The resource the caller's builder inputs name for entity e (Null: none).
NamedTemplate(e) ==
    CASE built[e].base.ctor = "from_path" -> LoaderLoad(built[e].base.arg)
      [] built[e].base.ctor = "from_handle" -> HandleTarget(built[e].base.arg)
      [] built[e].base.ctor = "from_resource" -> built[e].base.arg

\* The pass went through the whole loop body for e.
PassFinished(e) == steps[e] # <<>> /\ steps[e][Len(steps[e])] = "insert"

\* ------------------------------------------------------------------ C1
\* C1 (idempotency): once an entity carries GodotSceneSpawned, no later step of
\* the system - in particular no later spawn_scene pass - resolves, instantiates
\* or attaches anything for it: its record of steps, the nodes instantiated for
\* it and its children of the scene roots stay as they are.
C1_Idempotent ==
    [][\A e \in spawned :
        /\ steps'[e] = steps[e]
        /\ NodesOf(e)' = NodesOf(e)
        /\ AttachCount(e)' = AttachCount(e)
        /\ Count(steps'[e], "resolve") = 1
        /\ Count(steps'[e], "instantiate") = 1
        /\ Count(steps'[e], "add_child") = 1]_vars

\* A pass has just run and processed a new request while another entity was
\* already marked.
C1_Witness ==
    /\ pc = "post_update"
    /\ spawned # {}
    /\ QueuedEntities # {}

\* ------------------------------------------------------------------ C2
\* C2 (exactly-once attachment): every request the pass went through (its
\* inserts are queued, or its marker is already on the entity) has exactly one
\* node in the child lists of the scene roots.
C2_ExactlyOnce ==
    \A e \in Requests :
        (e \in spawned \/ PassFinished(e)) => AttachCount(e) = 1

\* Two marked entities, and a pass has run again after they were marked.
C2_Witness ==
    /\ Cardinality(spawned) >= 2
    /\ pc = "flush"

\* ------------------------------------------------------------------ C3
\* C3 (no partial processing): a pass that does not panic queues, for every
\* entity that had a GodotScene and no marker when it began, both the ErasedGd
\* and the GodotSceneSpawned insert; once the pass's commands are applied
\* (PostUpdateFlush) each of those entities has both the marker and the handle
\* of a node instantiated for it.
C3_BothOrNothing ==
    [][/\ (pc = "update" /\ pc' = "post_update") =>
            \A e \in NewScenes :
                Queued(e, "ErasedGd")' /\ Queued(e, "GodotSceneSpawned")'
       /\ (pc = "flush" /\ pc' = "update") =>
            \A e \in NewScenes :
                /\ e \in spawned'
                /\ erased'[e] \in NodesOf(e)]_vars

\* After a flush, two entities hold the marker and a handle to their own node.
C3_Witness ==
    /\ pc = "update"
    /\ Cardinality(spawned) >= 2
    /\ \A e \in spawned : erased[e] \in NodesOf(e)

\* ------------------------------------------------------------------ C4
\* C4 (atomic per request, also across an aborted pass): after a pass that
\* panicked, every request is either fully processed (one node attached, marker
\* and handle on the entity) or untouched (no node attached, no marker, no
\* handle).
C4_AtomicAfterAbort ==
    pc = "panicked" =>
        \A e \in Requests :
            \/ /\ AttachCount(e) = 1
               /\ e \in spawned
               /\ erased[e] \in NodesOf(e)
            \/ /\ AttachCount(e) = 0
               /\ e \notin spawned
               /\ erased[e] = 0

\* ------------------------------------------------------------------ C5
\* The fatal conditions of a request, read off the state the pass starts in.
FatalCondition(e) ==
    \/ built[e].base.ctor = "from_handle" /\ built[e].base.arg \notin assets
    \/ built[e].base.ctor = "from_path" /\ NamedTemplate(e) = Null
    \/ NamedTemplate(e) = "texture"
    \/ NamedTemplate(e) = "empty_scene"
    \/ current_scene = NoRoot

Panicked(e) == steps[e] # <<>> /\ steps[e][Len(steps[e])] = "panic"

\* C5 (fatal conditions abort the pass): a pass over requests of which one has
\* a fatal condition ends panicked, not completed; it stopped at exactly one
\* such request; no request with a fatal condition gets a marker, a handle, a
\* queued insert or a child of a scene root; and nothing runs after the panic,
\* so the request stays unprocessed.
C5_FatalAborts ==
    [][/\ (pc = "update" /\ pc' # "update") =>
            LET fatal == {e \in NewScenes : FatalCondition(e)}
            IN  /\ (fatal # {}) <=> (pc' = "panicked")
                /\ (fatal # {}) =>
                        Cardinality({e \in fatal : Panicked(e)'}) = 1
                /\ \A e \in NewScenes : Panicked(e)' => e \in fatal
                /\ \A e \in fatal :
                        /\ e \notin spawned'
                        /\ erased'[e] = 0
                        /\ e \notin QueuedEntities'
                        /\ AttachCount(e)' = 0
                        /\ ~PassFinished(e)'
       /\ pc = "panicked" => FALSE]_vars

\* A pass processed one request and then panicked on the next one.
C5_Witness ==
    /\ pc = "panicked"
    /\ QueuedEntities # {}
    /\ \E e \in Requests : Panicked(e) /\ e \notin spawned /\ erased[e] = 0

\* ------------------------------------------------------------------ C6
\* The descriptor's dimensionality does not fit the class of the template's root.
Mismatch(e) ==
    /\ HasTemplate(NamedTemplate(e))
    /\ \/ /\ scene[e].transform.tag = "Transform3D"
          /\ ~Inherits(Template(NamedTemplate(e)).class, "Node3D")
       \/ /\ scene[e].transform.tag = "Transform2D"
          /\ ~Inherits(Template(NamedTemplate(e)).class, "Node2D")

NodeFor(e) == CHOOSE n \in NodesOf(e) : TRUE

\* C6 (transform mismatch is not fatal): a request whose descriptor does not
\* fit the node goes through the whole loop body - resolve, instantiate,
\* add_child, an error report in place of the transform, insert - with its node
\* attached once and still at the template's transform and both inserts
\* queued; a pass without fatal requests completes whatever mismatches it
\* meets; and the flush puts marker and handle on the entity.
C6_MismatchNotFatal ==
    [][/\ (pc = "update" /\ pc' # "update") =>
            /\ \A e \in NewScenes :
                (Mismatch(e) /\ ~FatalCondition(e) /\ steps'[e] # <<>>) =>
                    /\ steps'[e] = <<"resolve", "instantiate", "add_child",
                                     "error", "insert">>
                    /\ Cardinality(NodesOf(e)') = 1
                    /\ nodes'[NodeFor(e)'].xform = Template(NamedTemplate(e)).xform
                    /\ AttachCount(e)' = 1
                    /\ Queued(e, "ErasedGd")' /\ Queued(e, "GodotSceneSpawned")'
            /\ (\A e \in NewScenes : ~FatalCondition(e)) => pc' = "post_update"
       /\ (pc = "flush" /\ pc' = "update") =>
            \A e \in NewScenes :
                Mismatch(e) =>
                    /\ e \in spawned'
                    /\ erased'[e] = NodeFor(e)
                    /\ nodes'[erased'[e]].xform = Template(NamedTemplate(e)).xform]_vars

\* A 3D descriptor met a Sprite2D root and the entity is marked all the same.
C6_Witness ==
    \E e \in spawned :
        /\ scene[e].transform.tag = "Transform3D"
        /\ nodes[erased[e]].class = "Sprite2D"
        /\ "error" \in Range(steps[e])

\* ------------------------------------------------------------------ C7
\* C7 (transform applied): a processed request with a 3D descriptor on a Node3D
\* (a 2D descriptor on a Node2D) has its node's global transform equal to the
\* descriptor's value; and a request built with with_translation3d(v) /
\* with_translation2d(v) carries the identity basis with origin v.
C7_TransformApplied ==
    \A e \in Requests :
        /\ (PassFinished(e) /\ scene[e].transform.tag = "Transform3D"
                /\ Inherits(nodes[NodeFor(e)].class, "Node3D")) =>
                    /\ nodes[NodeFor(e)].xform = scene[e].transform.value
                    /\ "error" \notin Range(steps[e])
        /\ (PassFinished(e) /\ scene[e].transform.tag = "Transform2D"
                /\ Inherits(nodes[NodeFor(e)].class, "Node2D")) =>
                    /\ nodes[NodeFor(e)].xform = scene[e].transform.value
                    /\ "error" \notin Range(steps[e])
        /\ built[e].modifier.with = "translation3d" =>
                scene[e].transform =
                    [tag |-> "Transform3D",
                     value |-> [basis |-> "I",
                                origin |-> built[e].modifier.translation]]
        /\ built[e].modifier.with = "translation2d" =>
                scene[e].transform =
                    [tag |-> "Transform2D",
                     value |-> [basis |-> "I",
                                origin |-> built[e].modifier.translation]]

\* A rotated 3D transform was set on a 3D node, and a translation on another.
C7_Witness ==
    /\ \E e \in spawned :
        /\ built[e].modifier.with = "transform3d"
        /\ nodes[erased[e]].class = "MeshInstance3D"
        /\ nodes[erased[e]].xform.basis = "R"
    /\ \E e \in spawned :
        /\ built[e].modifier.with = "translation3d"
        /\ nodes[erased[e]].xform.origin = <<1, 2, 3>>

\* ------------------------------------------------------------------ C8
\* C8 (deferred visibility): a pass adds no marker and no handle to what a
\* query sees; between the pass and its flush, where the later systems of the
\* frame run, the entities the pass processed show neither; the flush makes
\* exactly them visible, so that they are there from the next frame on.
C8_NotYetVisible ==
    pc \in {"post_update", "flush"} =>
        \A e \in QueuedEntities :
            /\ PassFinished(e)
            /\ e \notin spawned
            /\ erased[e] = 0
            /\ e \notin Visible

C8_VisibilitySteps ==
    /\ (pc = "update" /\ pc' # "update") =>
            /\ Visible' = Visible
            /\ spawned' = spawned
            /\ erased' = erased
            /\ (pc' = "post_update" => QueuedEntities' = NewScenes)
    /\ (pc = "post_update" /\ pc' = "flush") =>
            /\ Visible' = Visible
            /\ QueuedEntities' = QueuedEntities
    /\ (pc = "flush" /\ pc' = "update") =>
            /\ Visible' = Visible \cup QueuedEntities
            /\ commands' = <<>>

C8_DeferredVisibility == []C8_NotYetVisible /\ [][C8_VisibilitySteps]_vars

\* The later systems have run while a processed entity was waiting, beside an
\* entity of an earlier frame that they could see.
C8_Witness ==
    /\ pc = "flush"
    /\ QueuedEntities # {}
    /\ Visible # {}

\* ------------------------------------------------------------------ C9
\* C9 (end to end): a request without transform that the pass went through
\* has, once the flush applied the pass's commands, the marker and a handle;
\* the handle is the node instantiated for this entity from the scene the
\* request names, that node is once among the children of the scene that was
\* current during the pass, at its template transform; and no two entities
\* hold a handle to the same node.
C9_EndToEnd ==
    [][(pc = "flush" /\ pc' = "update") =>
        /\ \A e \in NewScenes :
            scene[e].transform = None =>
                /\ e \in spawned'
                /\ erased'[e] # 0
                /\ nodes[erased'[e]].owner = e
                /\ nodes[erased'[e]].res = NamedTemplate(e)
                /\ nodes[erased'[e]].parent = current_scene
                /\ Count(children[current_scene], erased'[e]) = 1
                /\ nodes[erased'[e]].xform = Template(NamedTemplate(e)).xform
        /\ \A e1, e2 \in Requests :
            (e1 # e2 /\ erased'[e1] # 0) => erased'[e1] # erased'[e2]]_vars

\* Two entities without transform, one of them built from a path, both
\* processed and each holding its own child of the scene root.
C9_Witness ==
    \E e1, e2 \in spawned :
        /\ e1 # e2
        /\ scene[e1].transform = None /\ scene[e2].transform = None
        /\ built[e1].base.ctor = "from_path"
        /\ erased[e1] # 0 /\ erased[e2] # 0
        /\ nodes[erased[e1]].parent = "main" /\ nodes[erased[e2]].parent = "main"

\* ------------------------------------------------------------------ C10
Done(e) == e \in spawned \/ (Queued(e, "ErasedGd") /\ Queued(e, "GodotSceneSpawned"))

\* C10 (resolution equivalence): two processed requests that name the same
\* template, however they were built, have instances of the same resource with
\* the same root class and child count, are both attached once and both marked
\* (or queued to be); with the same descriptor they went through the same steps
\* and have the same transform.
C10_ResolutionEquivalence ==
    \A e1, e2 \in Requests :
        (PassFinished(e1) /\ PassFinished(e2)
            /\ NamedTemplate(e1) = NamedTemplate(e2)) =>
                /\ nodes[NodeFor(e1)].res = nodes[NodeFor(e2)].res
                /\ nodes[NodeFor(e1)].class = nodes[NodeFor(e2)].class
                /\ nodes[NodeFor(e1)].child_count = nodes[NodeFor(e2)].child_count
                /\ AttachCount(e1) = AttachCount(e2)
                /\ Done(e1) /\ Done(e2)
                /\ scene[e1].transform = scene[e2].transform =>
                        /\ steps[e1] = steps[e2]
                        /\ nodes[NodeFor(e1)].xform = nodes[NodeFor(e2)].xform

\* A from_path and a from_handle request for the same template, both processed.
C10_Witness ==
    \E e1, e2 \in spawned :
        /\ built[e1].base.ctor = "from_path"
        /\ built[e2].base.ctor = "from_handle"
        /\ NamedTemplate(e1) = NamedTemplate(e2)
        /\ PassFinished(e1) /\ PassFinished(e2)

\* ------------------------------------------------------------------ C11
\* Place of a step in the loop body.
Rank(step) ==
    CASE step = "resolve" -> 1
      [] step = "instantiate" -> 2
      [] step = "add_child" -> 3
      [] step \in {"set_global_transform", "error"} -> 4
      [] step = "insert" -> 5
      [] step = "panic" -> 6

\* C11 (step order per request): what the pass did for a request is, in this
\* order and each at most once, resolve, instantiate, add_child, the transform
\* step, insert (a panic ends it); no step happens without the ones before it
\* (the transform step being there exactly when the request has a descriptor);
\* a node whose transform was set is a child of a scene root; and marker and
\* handle are queued or present only for a request whose node is attached.
C11_StepOrder ==
    \A e \in Requests :
        /\ \A i, j \in DOMAIN steps[e] :
                i < j => Rank(steps[e][i]) < Rank(steps[e][j])
        /\ \A i \in DOMAIN steps[e] :
                /\ steps[e][i] = "instantiate" => i = 2
                /\ steps[e][i] = "add_child" => i = 3
                /\ Rank(steps[e][i]) = 4 => (i = 4 /\ scene[e].transform # None)
                /\ steps[e][i] = "insert" =>
                        i = (IF scene[e].transform = None THEN 4 ELSE 5)
        /\ \A n \in NodesOf(e) :
                nodes[n].xform # Template(nodes[n].res).xform =>
                    (nodes[n].parent \in Roots /\ AttachCount(e) = 1)
        /\ (e \in QueuedEntities \/ e \in spawned) =>
                (PassFinished(e) /\ AttachCount(e) = 1)

\* A request went through all five steps, its transform set on the attached node.
C11_Witness ==
    \E e \in Requests :
        /\ steps[e] = <<"resolve", "instantiate", "add_child",
                        "set_global_transform", "insert">>
        /\ nodes[NodeFor(e)].parent = "main"
        /\ nodes[NodeFor(e)].xform = scene[e].transform.value

\* ------------------------------------------------------------------ C12
\* C12 (asset store read-only): a spawn_scene pass - taken here where it runs
\* to its end - leaves the asset store as it found it: the same assets are
\* loaded and none is reported as modified.
C12_AssetStoreUntouched ==
    [][(pc = "update" /\ pc' = "post_update") =>
        /\ assets' = assets
        /\ asset_events' = asset_events]_vars

\* ------------------------------------------------------------------ C13
\* C13 (requests and markers stay): no step removes an entity's GodotScene or
\* changes its descriptor or, for a Path or Resource request, its resource
\* reference, so that every request is still what its caller built; and an
\* entity that carries the marker keeps it.
C13_RequestKept ==
    /\ Len(scene) = Len(built)
    /\ \A e \in Requests :
        /\ scene[e].transform = Build(built[e].base, built[e].modifier).transform
        /\ built[e].base.ctor \in {"from_path", "from_resource"} =>
                scene[e].resource = BuildBase(built[e].base).resource

C13_KeptSteps ==
    /\ Len(scene') >= Len(scene)
    /\ \A e \in Requests :
        /\ scene'[e].transform = scene[e].transform
        /\ scene[e].resource.variant \in {"Path", "Resource"} =>
                scene'[e].resource = scene[e].resource
    /\ spawned \subseteq spawned'

C13_NothingRemoved == []C13_RequestKept /\ [][C13_KeptSteps]_vars

\* A Path request with a descriptor was processed and marked, and a further
\* pass has run since.
C13_Witness ==
    /\ pc = "flush"
    /\ \E e \in spawned :
        /\ scene[e].resource = [variant |-> "Path", path |-> "res://prop.tscn"]
        /\ scene[e].transform.tag = "Transform3D"
        /\ PassFinished(e)

\* ------------------------------------------------------------------ C14
\* C14 (no descriptor, no transform step): a request without descriptor that
\* the pass went through had exactly resolve, instantiate, add_child, insert
\* done for it - no transform set, no error reported - its node is at the
\* template's transform, attached once, and marker and handle are queued or
\* present; and a request built without with_* has no descriptor.
C14_NoTransformNoOp ==
    \A e \in Requests :
        /\ built[e].modifier.with = "nothing" => scene[e].transform = None
        /\ (scene[e].transform = None /\ PassFinished(e)) =>
                /\ steps[e] = <<"resolve", "instantiate", "add_child", "insert">>
                /\ nodes[NodeFor(e)].xform = Template(NamedTemplate(e)).xform
                /\ AttachCount(e) = 1
                /\ Done(e)

\* A bare from_path request is marked, its 3D node still where the scene put it.
C14_Witness ==
    \E e \in spawned :
        /\ built[e] = [base |-> [ctor |-> "from_path", arg |-> "res://prop.tscn"],
                       modifier |-> [with |-> "nothing"]]
        /\ nodes[erased[e]].xform = [basis |-> "I", origin |-> <<5, 5, 5>>]

\* ------------------------------------------------------------------ C15
\* How often the pass has started on entity e.
Visits(e) == Count(steps[e], "resolve")

C15_VisitSteps ==
    /\ (pc = "update" /\ pc' = "post_update") =>
            \A e \in Requests :
                Visits(e)' = Visits(e) + (IF e \in NewScenes THEN 1 ELSE 0)
    /\ (pc = "update" /\ pc' = "panicked") =>
            \A e \in Requests :
                /\ Visits(e)' - Visits(e) \in {0, 1}
                /\ e \notin NewScenes => Visits(e)' = Visits(e)
    /\ (pc = "flush" /\ pc' = "update") =>
            \A e \in Requests : e \in Visible' /\ Visits(e) = 1

\* C15 (every request is visited once per pass and gets processed): a pass
\* that runs to its end starts once on every unmarked request and on no other
\* (an aborted one at most once); the flush that follows a pass leaves every
\* request there is with marker and handle, each visited once in all; and,
\* the frame loop running on, every request - whenever it was added -
\* eventually has marker and handle unless a pass panics.
C15_EventuallyProcessed ==
    /\ [][C15_VisitSteps]_vars
    /\ \A e \in Entities :
        (e \in Requests) ~> (e \in Visible \/ pc = "panicked")

\* A request added in a later frame than entity 1 has been visited by the
\* first pass that saw it and waits for the flush.
C15_Witness ==
    /\ pc = "flush"
    /\ 1 \in spawned
    /\ 2 \in QueuedEntities
    /\ Visits(2) = 1

\* ------------------------------------------------------------------ C16
\* What a pass that visits the unmarked requests in the given order leaves
\* behind once the frame is over: the entities with the marker, the entities
\* with a handle (the queued inserts count when the pass reached its flush,
\* and are lost when it panicked) and the number of nodes of each request in
\* the child list of a scene root.
PassOutcome(order) ==
    LET st == RunPass(PassStart, order, current_scene)
        queued(component) ==
            IF st.panicked THEN {}
            ELSE {st.commands[i].entity :
                    i \in {j \in DOMAIN st.commands : st.commands[j].component = component}}
        slots == UNION {{<<r, i>> : i \in DOMAIN st.children[r]} : r \in Roots}
    IN  [processed |-> st.spawned \cup queued("GodotSceneSpawned"),
         handles |-> {e \in Entities : st.erased[e] # 0} \cup queued("ErasedGd"),
         attached |-> [e \in Requests |->
             Cardinality({p \in slots : st.nodes[st.children[p[1]][p[2]]].owner = e})]]

\* C16 (order independence): whenever a pass is about to run, every order in
\* which the query may yield the unmarked requests leads to the same set of
\* processed entities, the same set of entities with a handle and the same
\* number of attached nodes per request.
C16_OrderIndependent ==
    pc = "update" =>
        \A o1, o2 \in Orders(NewScenes) : PassOutcome(o1) = PassOutcome(o2)

\* ------------------------------------------------------------------ C17
\* C17 (marker and handle go together): in every state - during a frame,
\* between a pass and its flush, after a panic - an entity has the
\* GodotSceneSpawned marker exactly if it has an ErasedGd handle, and the handle
\* is that of a node instantiated for this entity.
C17_MarkerIffHandle ==
    \A e \in Entities :
        /\ e \in spawned <=> erased[e] # 0
        /\ erased[e] # 0 => erased[e] \in NodesOf(e)

\* A pass has panicked in a later frame than the one that processed an
\* entity: that entity has marker and handle, and the request the pass
\* stopped at has an instantiated node but neither marker nor handle.
C17_Witness ==
    /\ pc = "panicked"
    /\ \E e \in spawned : erased[e] \in NodesOf(e)
    /\ \E e \in Requests \ spawned :
        Panicked(e) /\ NodesOf(e) # {} /\ erased[e] = 0

====
